---- MODULE Spec2Model ----
(***************************************************************************)
(* Model of backend/app.py: a Flask service with one endpoint, /api/points *)
(* (GET lists the rows of table points, POST inserts one), on one of two   *)
(* storage backends: a local SQLite file or a remote PostgreSQL database   *)
(* reached through pg8000.                                                 *)
(*                                                                         *)
(* The process is modelled from module import on: the import reads         *)
(* DB_PATH and USE_SUPABASE, __main__ runs init_db() and then app.run().   *)
(* Flask's development server is threaded, so POST handlers interleave     *)
(* between their INSERT and their COMMIT.  The databases outlive the       *)
(* process; the process may be restarted.                                  *)
(***************************************************************************)
EXTENDS Integers, Sequences, FiniteSets, Bags, TLC

VARIABLES
    env,            \* os.environ of the process: variable name -> value or Absent
    pg8000,         \* TRUE iff "import pg8000" succeeded (lines 5-8)
    USE_SUPABASE,   \* module global, line 13
    DB_PATH,        \* module global, line 12
    pc,             \* position of the process in __main__
    db,             \* the databases: name -> [tables, rows, seq]
    inflight,       \* POST handlers between cur.execute(INSERT) and conn.commit()
    leaked,         \* bag of connections a handler opened and returned without closing
    resp,           \* the most recent HTTP response
    nresp,          \* number of responses sent so far
    issued,         \* the 201 responses so far, in order: <<[id, body, target]>>
    lastCall,       \* the most recent call of get_db_connection and its outcome
    lastInit,       \* the most recent run of init_db: database before and after
    initCalls,      \* calls of init_db in the current process
    handled,        \* requests the current process has started to handle
    nrestart,       \* process restarts so far
    nenv            \* changes of os.environ made while the server runs

vars == <<env, pg8000, USE_SUPABASE, DB_PATH, pc, db, inflight, leaked, resp,
          nresp, issued, lastCall, lastInit, initCalls, handled, nrestart, nenv>>

----------------------------------------------------------------------------
(* Bounds of the model *)

MaxRequests == 2      \* requests to /api/points over the whole run
MaxInflight == 2      \* POST handlers simultaneously between INSERT and COMMIT
MaxRestarts == 1      \* restarts of the process
MaxEnvChanges == 1    \* changes of os.environ while the server runs

----------------------------------------------------------------------------
(* Values *)

Absent == "<absent>"      \* a key that is not in os.environ / not in the JSON body
Null == "<null>"          \* JSON null, Python None

Fields == {"latitude", "longitude", "category", "creator_id"}

EnvVars == {"DB_PATH", "USE_SUPABASE", "SUPABASE_USER", "SUPABASE_PASSWORD",
            "SUPABASE_HOST", "SUPABASE_DB", "SUPABASE_PORT"}

EnvValues(k) ==
    CASE k = "USE_SUPABASE"      -> {Absent, "0", "1"}
      [] k = "DB_PATH"           -> {Absent, "a.db"}
      [] k = "SUPABASE_USER"     -> {Absent, "u"}
      [] k = "SUPABASE_PASSWORD" -> {Absent, "p"}
      [] k = "SUPABASE_HOST"     -> {Absent, "h"}
      [] k = "SUPABASE_DB"       -> {Absent, "d1", "d2"}
      [] k = "SUPABASE_PORT"     -> {Absent, "6543"}

DbNames == {"skytebane.db", "a.db", "d1", "d2"}

ValidBody(v) == [f \in Fields |-> v]

\* The JSON bodies sent: two complete ones, the first with one field omitted
\* (each of the four), and the first with latitude null.
Bodies ==
    {ValidBody("v1"), ValidBody("v2")}
    \cup {[ValidBody("v1") EXCEPT ![f] = Absent] : f \in Fields}
    \cup {[ValidBody("v1") EXCEPT !["latitude"] = Null]}

NoBody == [f \in Fields |-> Absent]

EmptyDb == [tables |-> <<>>, rows |-> <<>>, seq |-> 0]

Range(s) == {s[i] : i \in 1..Len(s)}

----------------------------------------------------------------------------
(* Module import, lines 5-13 *)

\* os.environ.get(k, default)
EnvGet(e, k, default) == IF e[k] = Absent THEN default ELSE e[k]

\* line 12
ImportDbPath(e) == EnvGet(e, "DB_PATH", "skytebane.db")

\* line 13
ImportUseSupabase(e) == EnvGet(e, "USE_SUPABASE", "0") = "1"

----------------------------------------------------------------------------
(* get_db_connection, lines 16-31 *)

UseRemoteNoDriverCheck == USE_SUPABASE

\* the condition "USE_SUPABASE and pg8000" of lines 17, 37 and 73
UseRemote == USE_SUPABASE /\ pg8000

RequiredEnvWithoutHost == <<"SUPABASE_USER", "SUPABASE_PASSWORD", "SUPABASE_DB">>

\* the os.environ[...] subscripts of lines 20-23, in evaluation order
RequiredEnv == <<"SUPABASE_USER", "SUPABASE_PASSWORD", "SUPABASE_HOST", "SUPABASE_DB">>

\* int(os.environ.get("SUPABASE_PORT", 5432)), line 24
DefaultPort == 5432
IntOf(s) == CASE s = "6543" -> 6543 [] s = "5432" -> 5432 [] OTHER -> -1
PortOf(e) == IF e["SUPABASE_PORT"] = Absent THEN DefaultPort ELSE IntOf(e["SUPABASE_PORT"])

LocalTargetReread(e) == ImportDbPath(e)

\* sqlite3.connect(DB_PATH), line 29: the module global, not the environment
LocalTarget(e) == DB_PATH

NoConn == [backend |-> "none", kind |-> "none", target |-> "", port |-> 0, exc |-> ""]

ConnError(backend, exc) ==
    [backend |-> backend, kind |-> "error", target |-> "", port |-> 0, exc |-> exc]

\* The outcome of get_db_connection() under environment e; up says whether
\* the backend accepts the connection.  backend is the branch of line 17
\* taken, kind what came of it.
GetDbConnection(e, up) ==
    IF UseRemote
    THEN IF \E i \in 1..Len(RequiredEnv) : e[RequiredEnv[i]] = Absent
         THEN ConnError("remote", "KeyError")
         ELSE IF ~up
         THEN ConnError("remote", "DatabaseError")
         ELSE [backend |-> "remote", kind |-> "remote", target |-> e["SUPABASE_DB"],
               port |-> PortOf(e), exc |-> ""]
    ELSE IF ~up
         THEN ConnError("local", "DatabaseError")
         ELSE [backend |-> "local", kind |-> "local", target |-> LocalTarget(e),
               port |-> 0, exc |-> ""]

----------------------------------------------------------------------------
(* The SQL statements, as the two database engines execute them *)

HasTable(d) == "points" \in Range(d.tables)

CreateTableDropFirst(d) == [EmptyDb EXCEPT !.tables = <<"points">>]

\* CREATE TABLE IF NOT EXISTS points (...), lines 38-47 and 49-58
CreateTableIfNotExists(d) ==
    IF HasTable(d) THEN d ELSE [d EXCEPT !.tables = Append(@, "points")]

\* the row INSERT stores: id from the key generator, the four bound parameters
\* (created_at, the server's clock reading, is left out of the model)
MakeRow(id, body) ==
    [id |-> id, latitude |-> body["latitude"], longitude |-> body["longitude"],
     category |-> body["category"], creator_id |-> body["creator_id"]]

\* id INTEGER PRIMARY KEY AUTOINCREMENT (line 51) / id SERIAL PRIMARY KEY (line 40):
\* one more than the largest key ever generated
NextId(d) == d.seq + 1

AfterInsertSeqInTxn(kind, d, row) == d

AfterInsertAutocommit(kind, d, row) ==
    [d EXCEPT !.rows = Append(@, row), !.seq = row.id]

\* The database after cur.execute(INSERT ...) and before conn.commit(), lines
\* 74-81 and 86-92: the row is pending in the connection's transaction and
\* not yet in the table.  PostgreSQL's sequence advances outside the
\* transaction; SQLite's sqlite_sequence is written at commit.
AfterInsert(kind, d, row) ==
    IF kind = "remote" THEN [d EXCEPT !.seq = row.id] ELSE d

\* conn.commit(), lines 83 and 93
Commit(kind, d, row) ==
    [d EXCEPT !.rows = Append(@, row),
              !.seq = IF row.id > @ THEN row.id ELSE @]

\* SQLite allows one write transaction per file: a connection that has
\* executed an INSERT and not yet committed or closed holds the lock.
LockHeld(target) ==
    \/ \E t \in inflight : t.conn.kind = "local" /\ t.conn.target = target
    \/ \E c \in BagToSet(leaked) : c.kind = "local" /\ c.target = target /\ c.txn

\* cur.execute(INSERT ...) on connection c with the body's values bound;
\* execOk says whether the backend executes the statement at all.
InsertOutcome(c, body, execOk) ==
    LET d == db[c.target] IN
    IF ~execOk \/ ~HasTable(d) \/ (c.kind = "local" /\ LockHeld(c.target))
    THEN [exc |-> "DatabaseError", id |-> 0, d |-> d]
    ELSE IF \E f \in Fields : body[f] = Null
    THEN [exc |-> "IntegrityError", id |-> 0,
          d |-> IF c.kind = "remote" THEN [d EXCEPT !.seq = @ + 1] ELSE d]
    ELSE [exc |-> "", id |-> NextId(d),
          d |-> AfterInsert(c.kind, d, MakeRow(NextId(d), body))]

\* [dict(row) for row in rows], line 98.  sqlite3.Row (row_factory, line 30)
\* is a mapping, so dict(row) is the row by column name.  A pg8000 row is a
\* plain sequence of column values, and dict() of it raises TypeError.
DictRows(kind, rows) ==
    IF kind = "remote" /\ Len(rows) > 0
    THEN [exc |-> "TypeError", rows |-> <<>>]
    ELSE [exc |-> "", rows |-> rows]

\* Flask answers an exception that escapes the view function with 500; a
\* KeyError raised by subscripting the dict of get_json() is such an exception.
StatusOfException(exc) == 500

----------------------------------------------------------------------------
(* Responses and bookkeeping *)

NoResp == [method |-> "none", body |-> NoBody, status |-> 0, exc |-> "",
           id |-> 0, rows |-> <<>>, opened |-> 0, target |-> ""]

Response(method, body, status, exc, id, rows, opened, target) ==
    [method |-> method, body |-> body, status |-> status, exc |-> exc,
     id |-> id, rows |-> rows, opened |-> opened, target |-> target]

Failure(method, body, exc, opened, target) ==
    Response(method, body, StatusOfException(exc), exc, 0, <<>>, opened, target)

\* the connection is still open when the view function returns: points()
\* has no conn.close()
Leak(c, txn) == leaked (+) SetToBag({[kind |-> c.kind, target |-> c.target, txn |-> txn]})

Called(by, c) == [n |-> lastCall.n + 1, by |-> by, conn |-> c]

NoCall == [n |-> 0, by |-> "none", conn |-> NoConn]

NoInit == [conn |-> NoConn, before |-> EmptyDb, after |-> EmptyDb,
           raised |-> FALSE, exc |-> "", closed |-> FALSE]

----------------------------------------------------------------------------
(* The state after "import app" *)

NoEnv == [k \in EnvVars |-> Absent]

RemoteEnv ==
    [NoEnv EXCEPT !["USE_SUPABASE"] = "1", !["SUPABASE_USER"] = "u",
                  !["SUPABASE_PASSWORD"] = "p", !["SUPABASE_HOST"] = "h",
                  !["SUPABASE_DB"] = "d1"]

\* The environments the process is started in: nothing set, the local
\* database with and without DB_PATH, the remote database fully configured,
\* and the remote database with one of its four variables missing.
InitEnvs ==
    {NoEnv, [NoEnv EXCEPT !["USE_SUPABASE"] = "0"],
     [NoEnv EXCEPT !["USE_SUPABASE"] = "0", !["DB_PATH"] = "a.db"], RemoteEnv}
    \cup {[RemoteEnv EXCEPT ![k] = Absent] :
             k \in {"SUPABASE_USER", "SUPABASE_PASSWORD", "SUPABASE_HOST",
                    "SUPABASE_DB"}}

Init ==
    /\ env \in InitEnvs
    /\ pg8000 \in BOOLEAN
    /\ USE_SUPABASE = ImportUseSupabase(env)
    /\ DB_PATH = ImportDbPath(env)
    /\ pc = "boot"
    /\ db = [n \in DbNames |-> EmptyDb]
    /\ inflight = {}
    /\ leaked = EmptyBag
    /\ resp = NoResp
    /\ nresp = 0
    /\ issued = <<>>
    /\ lastCall = NoCall
    /\ lastInit = NoInit
    /\ initCalls = 0
    /\ handled = 0
    /\ nrestart = 0
    /\ nenv = 0

----------------------------------------------------------------------------
(* __main__, lines 101-103 *)

AfterInitDbSwallow(raised) == "initialized"

\* init_db() is the statement before app.run(): an exception it raises ends
\* the process before the server starts
AfterInitDb(raised) == IF raised THEN "dead" ELSE "initialized"

\* init_db(), lines 34-60, called from line 102
InitDb(up, execOk) ==
    /\ pc = "boot"
    /\ initCalls' = initCalls + 1
    /\ LET c == GetDbConnection(env, up) IN
       /\ lastCall' = Called("init", c)
       /\ IF c.kind = "error"
          THEN /\ lastInit' = [NoInit EXCEPT !.conn = c, !.raised = TRUE, !.exc = c.exc]
               /\ pc' = AfterInitDb(TRUE)
               /\ db' = db
          ELSE IF ~execOk
          THEN /\ lastInit' = [conn |-> c, before |-> db[c.target],
                               after |-> db[c.target], raised |-> TRUE,
                               exc |-> "DatabaseError", closed |-> FALSE]
               /\ pc' = AfterInitDb(TRUE)
               /\ db' = db
          ELSE /\ db' = [db EXCEPT ![c.target] = CreateTableIfNotExists(@)]
               /\ lastInit' = [conn |-> c, before |-> db[c.target],
                               after |-> db'[c.target], raised |-> FALSE,
                               exc |-> "", closed |-> TRUE]
               /\ pc' = AfterInitDb(FALSE)
    /\ UNCHANGED <<env, pg8000, USE_SUPABASE, DB_PATH, inflight, leaked, resp,
                   nresp, issued, handled, nrestart, nenv>>

\* app.run(debug=True), line 103
AppRun ==
    /\ pc = "initialized"
    /\ pc' = "serving"
    /\ UNCHANGED <<env, pg8000, USE_SUPABASE, DB_PATH, db, inflight, leaked, resp,
                   nresp, issued, lastCall, lastInit, initCalls, handled,
                   nrestart, nenv>>

----------------------------------------------------------------------------
(* points(), lines 63-99 *)

\* POST, lines 65-82 / 65-92: from the call of get_db_connection to the
\* return of cur.execute(INSERT ...)
PostBegin(body, up, execOk) ==
    /\ pc = "serving"
    /\ nresp + Cardinality(inflight) < MaxRequests
    /\ Cardinality(inflight) < MaxInflight
    /\ handled' = handled + 1
    /\ LET c == GetDbConnection(env, up) IN
       /\ lastCall' = Called("POST", c)
       /\ IF c.kind = "error"
          THEN /\ resp' = Failure("POST", body, c.exc, 0, "")
               /\ nresp' = nresp + 1
               /\ UNCHANGED <<db, inflight, leaked>>
          ELSE IF \E f \in Fields : body[f] = Absent
          THEN /\ resp' = Failure("POST", body, "KeyError", 1, c.target)
               /\ nresp' = nresp + 1
               /\ leaked' = Leak(c, FALSE)
               /\ UNCHANGED <<db, inflight>>
          ELSE LET o == InsertOutcome(c, body, execOk) IN
               /\ db' = [db EXCEPT ![c.target] = o.d]
               /\ IF o.exc # ""
                  THEN /\ resp' = Failure("POST", body, o.exc, 1, c.target)
                       /\ nresp' = nresp + 1
                       /\ leaked' = Leak(c, FALSE)
                       /\ UNCHANGED inflight
                  ELSE /\ inflight' = inflight \cup {[body |-> body, conn |-> c, id |-> o.id]}
                       /\ UNCHANGED <<resp, nresp, leaked>>
    /\ UNCHANGED <<env, pg8000, USE_SUPABASE, DB_PATH, pc, issued, lastInit,
                   initCalls, nrestart, nenv>>

\* POST, lines 83-84 / 93-94: conn.commit() and the 201 response
PostCommit(t, commitOk) ==
    /\ pc = "serving"
    /\ t \in inflight
    /\ inflight' = inflight \ {t}
    /\ nresp' = nresp + 1
    /\ IF commitOk
       THEN /\ db' = [db EXCEPT ![t.conn.target] =
                          Commit(t.conn.kind, @, MakeRow(t.id, t.body))]
            /\ resp' = Response("POST", t.body, 201, "", t.id, <<>>, 1, t.conn.target)
            /\ issued' = Append(issued, [id |-> t.id, body |-> t.body,
                                         target |-> t.conn.target])
            /\ leaked' = Leak(t.conn, FALSE)
       ELSE /\ resp' = Failure("POST", t.body, "DatabaseError", 1, t.conn.target)
            /\ leaked' = Leak(t.conn, t.conn.kind = "local")
            /\ UNCHANGED <<db, issued>>
    /\ UNCHANGED <<env, pg8000, USE_SUPABASE, DB_PATH, pc, lastCall, lastInit,
                   initCalls, handled, nrestart, nenv>>

\* GET, lines 65-66 and 96-99
HandleGet(up, execOk) ==
    /\ pc = "serving"
    /\ nresp + Cardinality(inflight) < MaxRequests
    /\ handled' = handled + 1
    /\ nresp' = nresp + 1
    /\ LET c == GetDbConnection(env, up) IN
       /\ lastCall' = Called("GET", c)
       /\ IF c.kind = "error"
          THEN /\ resp' = Failure("GET", NoBody, c.exc, 0, "")
               /\ UNCHANGED leaked
          ELSE /\ leaked' = Leak(c, FALSE)
               /\ IF ~execOk \/ ~HasTable(db[c.target])
                  THEN resp' = Failure("GET", NoBody, "DatabaseError", 1, c.target)
                  ELSE LET r == DictRows(c.kind, db[c.target].rows) IN
                       IF r.exc # ""
                       THEN resp' = Failure("GET", NoBody, r.exc, 1, c.target)
                       ELSE resp' = Response("GET", NoBody, 200, "", 0, r.rows, 1,
                                             c.target)
    /\ UNCHANGED <<env, pg8000, USE_SUPABASE, DB_PATH, pc, db, inflight, issued,
                   lastInit, initCalls, nrestart, nenv>>

----------------------------------------------------------------------------
(* The environment of the program *)

\* The interpreter finalizes a connection object no frame refers to any more,
\* at a time of its choosing; that closes the connection and rolls back what
\* it had not committed.
Finalize(c) ==
    /\ c \in BagToSet(leaked)
    /\ leaked' = leaked (-) SetToBag({c})
    /\ UNCHANGED <<env, pg8000, USE_SUPABASE, DB_PATH, pc, db, inflight, resp,
                   nresp, issued, lastCall, lastInit, initCalls, handled,
                   nrestart, nenv>>

\* The process ends and a new one imports the module: the globals of lines
\* 12-13 are computed again, open connections are gone and their uncommitted
\* transactions rolled back; the databases stay.
Restart ==
    /\ nrestart < MaxRestarts
    /\ nrestart' = nrestart + 1
    /\ pc' = "boot"
    /\ USE_SUPABASE' = ImportUseSupabase(env)
    /\ DB_PATH' = ImportDbPath(env)
    /\ inflight' = {}
    /\ leaked' = EmptyBag
    /\ initCalls' = 0
    /\ handled' = 0
    /\ lastCall' = NoCall
    /\ lastInit' = NoInit
    /\ UNCHANGED <<env, pg8000, db, resp, nresp, issued, nenv>>

\* os.environ is changed while the server runs, between two requests
SetEnv(k, v) ==
    /\ pc = "serving"
    /\ nenv < MaxEnvChanges
    /\ v # env[k]
    /\ env' = [env EXCEPT ![k] = v]
    /\ nenv' = nenv + 1
    /\ UNCHANGED <<pg8000, USE_SUPABASE, DB_PATH, pc, db, inflight, leaked, resp,
                   nresp, issued, lastCall, lastInit, initCalls, handled, nrestart>>

----------------------------------------------------------------------------
(* Specifications *)

\* one process, from import to the end of its life
Run ==
    \/ \E up \in BOOLEAN, execOk \in BOOLEAN : InitDb(up, execOk)
    \/ AppRun
    \/ \E body \in Bodies, up \in BOOLEAN, execOk \in BOOLEAN : PostBegin(body, up, execOk)
    \/ \E t \in inflight, commitOk \in BOOLEAN : PostCommit(t, commitOk)
    \/ \E up \in BOOLEAN, execOk \in BOOLEAN : HandleGet(up, execOk)
    \/ \E c \in BagToSet(leaked) : Finalize(c)

\* the service under an environment that does not change, restarts included
Next == Run \/ Restart

Spec == Init /\ [][Next]_vars

\* one process with os.environ changing under it
NextEnv ==
    \/ Run
    \/ \E k \in EnvVars : \E v \in EnvValues(k) : SetEnv(k, v)

SpecEnv == Init /\ [][NextEnv]_vars

----------------------------------------------------------------------------
(* Properties *)

Complete(body) == \A f \in Fields : body[f] # Absent

NonNull(body) == \A f \in Fields : body[f] \notin {Absent, Null}

MissingEnv(e) ==
    \E k \in {"SUPABASE_USER", "SUPABASE_PASSWORD", "SUPABASE_HOST", "SUPABASE_DB"} :
        e[k] = Absent

IssuedIdsDistinct ==
    \A i, j \in 1..Len(issued) : i # j => issued[i].id # issued[j].id

\* C1, as claimed: every POST whose body carries latitude, longitude,
\* category and creator_id answers 201 with a positive id that no earlier
\* successful POST returned.  (A POST on which the backend itself failed -
\* connection refused, statement not executed - is left aside.)
C1_EveryCompletePostCreated ==
    (resp.method = "POST" /\ Complete(resp.body) /\ resp.exc # "DatabaseError")
        => /\ resp.status = 201
           /\ resp.id > 0
           /\ IssuedIdsDistinct

\* C1, amended: a POST whose body carries non-null values for the four
\* fields answers 201 unless the backend raises; every 201 carries a positive
\* id, and no two successful POSTs, however interleaved, get the same id.
C1_CreatedIdsUnique ==
    /\ (resp.method = "POST" /\ NonNull(resp.body) /\ resp.exc # "DatabaseError")
           => resp.status = 201
    /\ resp.status = 201
           => /\ resp.id > 0
              /\ Len(issued) > 0
              /\ issued[Len(issued)].id = resp.id
    /\ \A i \in 1..Len(issued) : issued[i].id > 0
    /\ IssuedIdsDistinct

\* C1, reached: two POSTs interleaved; the one that inserted second committed first
C1_Witness ==
    /\ Len(issued) = 2
    /\ issued[1].id > issued[2].id
    /\ resp.status = 201

\* C2, as claimed: a POST whose body omits a required field is answered
\* with a 4xx status, never 2xx or 5xx.  (A POST on which the connection
\* itself failed is left aside.)
C2_MissingFieldIsClientError ==
    (resp.method = "POST" /\ ~Complete(resp.body) /\ resp.opened = 1)
        => resp.status \in 400..499

\* C3: a POST that does not answer 201 leaves every table as it was; the
\* rows of a table change only in the step that answers 201, and then by
\* the one row that response names.
C3_FailedPostWritesNothing ==
    [][/\ (nresp' = nresp + 1 /\ resp'.method = "POST" /\ resp'.status # 201)
           => \A n \in DbNames : /\ db'[n].rows = db[n].rows
                                 /\ db'[n].tables = db[n].tables
       /\ \A n \in DbNames :
             db'[n].rows # db[n].rows
                 => /\ nresp' = nresp + 1
                    /\ resp'.method = "POST"
                    /\ resp'.status = 201
                    /\ resp'.target = n
                    /\ db'[n].rows = Append(db[n].rows, MakeRow(resp'.id, resp'.body))
      ]_vars

\* C3, reached: a POST whose INSERT succeeded and whose COMMIT failed, on a table that
\* holds an earlier row
C3_Witness ==
    /\ resp.method = "POST"
    /\ resp.status = 500
    /\ resp.opened = 1
    /\ NonNull(resp.body)
    /\ \E c \in BagToSet(leaked) : c.txn
    /\ Len(db[resp.target].rows) = 1

RowsWithId(rows, i) == {k \in 1..Len(rows) : rows[k].id = i}

\* C4, as claimed: once a POST has answered 201 with id i, every later
\* GET, on either backend, answers 200 with an array that holds exactly
\* one object with id i, carrying the submitted values; with no successful
\* POST the array is empty.  (A GET on which the backend itself failed is
\* left aside.)
C4_GetReturnsEveryCreatedPoint ==
    (resp.method = "GET" /\ resp.exc # "DatabaseError")
        => /\ resp.status = 200
           /\ \A i \in 1..Len(issued) :
                 /\ Cardinality(RowsWithId(resp.rows, issued[i].id)) = 1
                 /\ \A k \in RowsWithId(resp.rows, issued[i].id) :
                       resp.rows[k] = MakeRow(issued[i].id, issued[i].body)
           /\ (issued = <<>> => resp.rows = <<>>)

\* C5, as claimed: connections use the remote backend exactly when the
\* environment variable USE_SUPABASE is "1".
C5_RemoteIffFlag ==
    lastCall.by # "none"
        => (lastCall.conn.backend = "remote" <=> env["USE_SUPABASE"] = "1")

\* C5, amended: connections use the remote backend exactly when
\* USE_SUPABASE is "1" and the pg8000 driver could be imported; with
\* USE_SUPABASE "1" and no pg8000 they use the local database.  A POST
\* handler between INSERT and COMMIT is on the same backend.
C5_RemoteIffFlagAndDriver ==
    /\ lastCall.by # "none"
           => (lastCall.conn.backend = "remote"
                   <=> (env["USE_SUPABASE"] = "1" /\ pg8000))
    /\ \A t \in inflight :
           t.conn.kind = "remote" <=> (env["USE_SUPABASE"] = "1" /\ pg8000)
    /\ lastInit.conn.backend # "none"
           => (lastInit.conn.backend = "remote"
                   <=> (env["USE_SUPABASE"] = "1" /\ pg8000))

\* C5, reached: USE_SUPABASE is "1", pg8000 is missing, and a request was served from the
\* local database
C5_Witness ==
    /\ env["USE_SUPABASE"] = "1"
    /\ ~pg8000
    /\ lastCall.by = "POST"
    /\ lastCall.conn.kind = "local"
    /\ resp.status = 201

NothingOpenedOrExecuted ==
    /\ db' = db
    /\ leaked' = leaked
    /\ inflight' = inflight
    /\ issued' = issued

Aborted ==
    /\ lastCall'.conn.kind = "error"
    /\ lastCall'.conn.exc = "KeyError"
    /\ NothingOpenedOrExecuted
    /\ lastCall'.by = "init" => pc' = "dead"
    /\ lastCall'.by \in {"GET", "POST"}
           => /\ nresp' = nresp + 1
              /\ resp'.status = 500
              /\ resp'.exc = "KeyError"
              /\ resp'.opened = 0

BackendFailed ==
    \/ lastCall'.conn.exc = "DatabaseError"
    \/ lastCall'.by = "init" /\ lastInit'.exc = "DatabaseError"
    \/ lastCall'.by \in {"GET", "POST"} /\ nresp' = nresp + 1
           /\ resp'.exc = "DatabaseError"

\* C6, as claimed: with USE_SUPABASE "1" in the environment and one of the
\* four SUPABASE_* variables absent, every call of get_db_connection fails
\* with a configuration error, opens nothing, executes nothing, and the
\* request or init_db is aborted.  (A step in which the database itself
\* failed is left aside.)
C6_MissingVariableAborts ==
    [][(/\ lastCall'.n # lastCall.n
        /\ env["USE_SUPABASE"] = "1"
        /\ MissingEnv(env)
        /\ ~BackendFailed)
           => Aborted]_vars

\* C6, amended: the same, when the remote backend is in fact selected:
\* USE_SUPABASE was "1" when the module was imported and pg8000 could be
\* imported.
C6_MissingVariableAbortsRemote ==
    [][(lastCall'.n # lastCall.n /\ USE_SUPABASE /\ pg8000 /\ MissingEnv(env))
           => Aborted]_vars

\* C6, reached: a request aborted by the configuration error; the variable went missing
\* after init_db had run
C6_Witness ==
    /\ lastCall.by = "POST"
    /\ lastCall.conn.exc = "KeyError"
    /\ resp.method = "POST"
    /\ resp.exc = "KeyError"
    /\ resp.opened = 0
    /\ Complete(resp.body)

\* C7, as claimed: every handler closes the connection it opened before it
\* returns, so that once every request has completed no connection opened
\* by a handler is open.
C7_HandlersCloseConnections ==
    inflight = {} => leaked = EmptyBag

\* C8: init_db on a database that already has the table (with or without
\* rows) raises nothing and changes nothing; after any init_db the backend
\* let through there is exactly one table points and the connection is
\* closed.
C8_InitDbIdempotent ==
    (lastInit.conn.kind \in {"local", "remote"} /\ lastInit.exc # "DatabaseError")
        => /\ ~lastInit.raised
           /\ lastInit.closed
           /\ lastInit.after.tables = <<"points">>
           /\ lastInit.after.rows = lastInit.before.rows
           /\ lastInit.after.seq = lastInit.before.seq
           /\ HasTable(lastInit.before) => lastInit.after = lastInit.before
           /\ pc # "dead"

\* C8, reached: init_db ran in a second process, on a table that holds a row
C8_Witness ==
    /\ nrestart = 1
    /\ HasTable(lastInit.before)
    /\ Len(lastInit.before.rows) > 0
    /\ ~lastInit.raised
    /\ lastInit.closed

CallUsesEnvironment(e) ==
    /\ lastCall'.conn.backend = "remote" <=> (ImportUseSupabase(e) /\ pg8000)
    /\ lastCall'.conn.kind = "local" => lastCall'.conn.target = ImportDbPath(e)
    /\ lastCall'.conn.kind = "remote"
           => /\ lastCall'.conn.target = e["SUPABASE_DB"]
              /\ lastCall'.conn.port = PortOf(e)

\* C9, as claimed: every call of get_db_connection reads DB_PATH,
\* USE_SUPABASE and the SUPABASE_* variables from the environment as it is
\* at the call.
C9_EveryVariableReadPerCall ==
    [][lastCall'.n # lastCall.n => CallUsesEnvironment(env)]_vars

\* C9, amended: the SUPABASE_* variables are read at every call; DB_PATH
\* and USE_SUPABASE are read once, when the module is imported, and a later
\* change of them is not seen by any call in the process.
C9_OnlySupabaseVariablesReadPerCall ==
    /\ [](nenv = 0 => /\ DB_PATH = ImportDbPath(env)
                      /\ USE_SUPABASE = ImportUseSupabase(env))
    /\ [][/\ DB_PATH' = DB_PATH
          /\ USE_SUPABASE' = USE_SUPABASE
          /\ lastCall'.n # lastCall.n
                => /\ lastCall'.conn.backend = "remote" <=> (USE_SUPABASE /\ pg8000)
                   /\ lastCall'.conn.kind = "local"
                          => lastCall'.conn.target = DB_PATH
                   /\ lastCall'.conn.kind = "remote"
                          => /\ lastCall'.conn.target = env["SUPABASE_DB"]
                             /\ lastCall'.conn.port = PortOf(env)
                   /\ (lastCall'.conn.backend = "remote" /\ MissingEnv(env))
                          => lastCall'.conn.exc = "KeyError"
         ]_vars

\* C9, reached: a request connected to the database SUPABASE_DB was changed to, after
\* init_db had connected to the one it named before
C9_Witness ==
    /\ lastInit.conn.kind = "remote"
    /\ lastInit.conn.target = "d1"
    /\ lastCall.by = "GET"
    /\ lastCall.conn.kind = "remote"
    /\ lastCall.conn.target = "d2"

\* C10: a process handles requests only after its one call of init_db has
\* returned (table there, connection closed); a process whose init_db
\* raised handles none.
C10_InitBeforeServing ==
    /\ initCalls <= 1
    /\ (handled > 0 \/ inflight # {} \/ pc = "serving")
           => /\ pc = "serving"
              /\ initCalls = 1
              /\ ~lastInit.raised
              /\ lastInit.closed
              /\ HasTable(db[lastInit.conn.target])
    /\ pc = "dead" => /\ lastInit.raised
                      /\ handled = 0
                      /\ inflight = {}
    /\ pc \in {"initialized", "serving", "dead"} <=> initCalls = 1

\* C10, reached: a request handled by the second process, after its own init_db
C10_Witness ==
    /\ nrestart = 1
    /\ handled > 0
    /\ resp.status \in {200, 201}
    /\ lastCall.by \in {"GET", "POST"}

====
